---- MODULE Spec2Model ----
(***************************************************************************)
(* The ingest server of weather_collect (src/ingest_server/app.py and      *)
(* models.py) as a state machine: POST /data (save_data) handled by        *)
(* concurrent requests against one weather_observation table, GET /ping    *)
(* and the GET chart routes.  save_data touches the shared table only in   *)
(* session.commit(); each request is therefore cut into three steps: the   *)
(* handler up to the commit, the commit, and the answer after it.          *)
(***************************************************************************)
EXTENDS Integers, Sequences, FiniteSets, TLC

\* Number of POST /data requests of a run, handled concurrently.
NumRequests == 2

Requests == 1..NumRequests

\* request.headers has no "Authorization" entry.
NoHeader == "<no header>"

\* A local variable of save_data that no statement has bound yet.
Unbound == "<unbound>"

\* No station resolved (yet).
NoStation == 0

\* No exception raised.
NoError == ""

\* A subscript on a mapping that lacks the key.
KeyError == "<KeyError>"

\* The rows of table weather_station (models.py): station_post_key is a
\* column with a server default and no UNIQUE constraint, so two rows may
\* hold the same key.
WeatherStation ==
    { [station_id |-> 1, station_post_key |-> "key-a"],
      [station_id |-> 2, station_post_key |-> "key-b"],
      [station_id |-> 3, station_post_key |-> "key-dup"],
      [station_id |-> 4, station_post_key |-> "key-dup"] }

\* The Authorization headers a request may carry: none, the key of one
\* station, a key two stations share, a key of no station.
Headers == {NoHeader, "key-a", "key-dup", "not-a-real-key"}

\* The variables save_data consults, in the order of its loop.
var_names == <<"temperature", "pressure", "humidity">>

VarSet == {var_names[i] : i \in 1..Len(var_names)}

Fields == {"time"} \cup VarSet

\* The values a payload may give a field, as the JSON tokens of the body.
FieldValues(f) ==
    CASE f = "time" -> {"2024-01-01T00:00:00Z"}
      [] f = "temperature" -> {"21.5"}
      [] f = "pressure" -> {"1013.0"}
      [] f = "humidity" -> {"55.0"}

AllValues == UNION {FieldValues(f) : f \in Fields}

\* request.json: a mapping from some of the fields to values.
Payloads ==
    { p \in UNION {[S -> AllValues] : S \in SUBSET Fields} :
        \A f \in DOMAIN p : p[f] \in FieldValues(f) }

VARIABLES
    pc,              \* where each request is in save_data
    headers,         \* request.headers["Authorization"] of each request, or NoHeader
    json,            \* request.json of each request
    weather_station, \* local weather_station: the station_id resolved
    session,         \* the rows session.add() staged, not yet committed
    lookups,         \* how many registry queries the request has made
    response,        \* the answer of each request, and the exception behind a 500
    drawn,           \* the observation_ids the INSERTs of each request drew
    store,           \* table weather_observation: the committed rows
    next_id,         \* the sequence behind observation_id
    last_get         \* the status answered to the last GET request (0: none yet)

vars == <<pc, headers, json, weather_station, session, lookups, response,
          drawn, store, next_id, last_get>>

NoResponse == [status |-> 0, message |-> "", raised |-> NoError]

EmptyPayload == [f \in {} |-> ""]

Init ==
    /\ pc = [r \in Requests |-> "idle"]
    /\ headers = [r \in Requests |-> NoHeader]
    /\ json = [r \in Requests |-> EmptyPayload]
    /\ weather_station = [r \in Requests |-> NoStation]
    /\ session = [r \in Requests |-> <<>>]
    /\ lookups = [r \in Requests |-> 0]
    /\ response = [r \in Requests |-> NoResponse]
    /\ drawn = [r \in Requests |-> {}]
    /\ store = <<>>
    /\ next_id = 1
    /\ last_get = 0

(***************************************************************************)
(* validate_station: the stations whose station_post_key equals api_key,   *)
(* and Result.one() of them.                                               *)
(***************************************************************************)
\* Result.first() in place of Result.one(): several matches give the first.
validate_station_first(api_key) ==
    LET stations == {s \in WeatherStation : s.station_post_key = api_key}
    IN  IF stations = {}
        THEN [raised |-> "NoResultFound", station_id |-> NoStation]
        ELSE [raised |-> NoError,
              station_id |-> (CHOOSE s \in stations : TRUE).station_id]

validate_station(api_key) ==
    LET stations == {s \in WeatherStation : s.station_post_key = api_key}
    IN  IF stations = {}
        THEN [raised |-> "NoResultFound", station_id |-> NoStation]
        ELSE IF Cardinality(stations) > 1
        THEN [raised |-> "MultipleResultsFound", station_id |-> NoStation]
        ELSE [raised |-> NoError,
              station_id |-> (CHOOSE s \in stations : TRUE).station_id]

\* WeatherObservation(weather_station=..., observation_datetime=...,
\* variable=..., value=...): a row not yet drawn has no observation_id.
WeatherObservation(station_id, obs_time, var_name, obs_value) ==
    [station_id |-> station_id, observation_datetime |-> obs_time,
     variable |-> var_name, value |-> obs_value]

(***************************************************************************)
(* The for loop of save_data from position i on, with the local obs_value  *)
(* as the earlier iterations left it and the rows staged so far.  A        *)
(* KeyError on data[var_name] is logged and the iteration goes on to build *)
(* the row from obs_value: unbound when no earlier iteration assigned it   *)
(* (UnboundLocalError), and the earlier variable's value otherwise.        *)
(***************************************************************************)
RECURSIVE ReadValues(_, _, _, _, _, _)
ReadValues(data, station_id, obs_time, i, obs_value, staged) ==
    IF i > Len(var_names)
    THEN [raised |-> NoError, staged |-> staged]
    ELSE LET var_name == var_names[i]
             value == IF var_name \in DOMAIN data THEN data[var_name] ELSE obs_value
         IN  IF value = Unbound
             THEN [raised |-> "UnboundLocalError", staged |-> staged]
             ELSE ReadValues(data, station_id, obs_time, i + 1, value,
                      Append(staged,
                             WeatherObservation(station_id, obs_time, var_name, value)))

(***************************************************************************)
(* save_data from its first line to the line before session.commit(), for  *)
(* a request with Authorization header api_key (or none) and JSON body     *)
(* data: the answer it returns early with, or pc "commit" and the rows     *)
(* staged.                                                                 *)
(***************************************************************************)
Returned(status, message, raised, station_id, n_lookups) ==
    [pc |-> "done", status |-> status, message |-> message, raised |-> raised,
     station_id |-> station_id, lookups |-> n_lookups, staged |-> <<>>]

\* request.headers.get("Authorization", ""): no KeyError, an empty key.
Authorization_get(h) == IF h = NoHeader THEN "" ELSE h

\* request.headers["Authorization"]
Authorization(h) == IF h = NoHeader THEN KeyError ELSE h

\* data.get("time"): no KeyError, None.
data_time_get(data) == IF "time" \in DOMAIN data THEN data["time"] ELSE "None"

\* data["time"]
data_time(data) == IF "time" \in DOMAIN data THEN data["time"] ELSE KeyError

\* save_data with the time of the reading extracted before the API key is
\* validated.
save_data_time_first(h, data) ==
    LET api_key == Authorization(h)
        obs_time == data_time(data)
    IN  IF api_key = KeyError
        THEN Returned(401, "Post requests require header {'Authorization': API_KEY}",
                      NoError, NoStation, 0)
        ELSE IF obs_time = KeyError
        THEN Returned(400, "Data missing time", NoError, NoStation, 0)
        ELSE LET found == validate_station(api_key)
             IN  IF found.raised # NoError
                 THEN Returned(403, "Invalid API key", NoError, NoStation, 1)
                 ELSE LET read == ReadValues(data, found.station_id, obs_time,
                                             1, Unbound, <<>>)
                      IN  IF read.raised # NoError
                          THEN Returned(500, "Internal Server Error", read.raised,
                                        found.station_id, 1)
                          ELSE [pc |-> "commit", status |-> 0, message |-> "",
                                raised |-> NoError, station_id |-> found.station_id,
                                lookups |-> 1, staged |-> read.staged]

save_data(h, data) ==
    LET api_key == Authorization(h)
    IN  IF api_key = KeyError
        THEN Returned(401, "Post requests require header {'Authorization': API_KEY}",
                      NoError, NoStation, 0)
        ELSE LET found == validate_station(api_key)
             IN  IF found.raised # NoError
                 THEN Returned(403, "Invalid API key", NoError, NoStation, 1)
                 ELSE LET obs_time == data_time(data)
                      IN  IF obs_time = KeyError
                          THEN Returned(400, "Data missing time", NoError,
                                        found.station_id, 1)
                          ELSE LET read == ReadValues(data, found.station_id,
                                                      obs_time, 1, Unbound, <<>>)
                               IN  IF read.raised # NoError
                                   THEN Returned(500, "Internal Server Error",
                                                 read.raised, found.station_id, 1)
                                   ELSE [pc |-> "commit", status |-> 0,
                                         message |-> "", raised |-> NoError,
                                         station_id |-> found.station_id,
                                         lookups |-> 1, staged |-> read.staged]

\* A POST /data request arrives and runs up to its commit or its early answer.
\* Leaving the with block closes the session: what was staged is discarded.
Handle(r) ==
    /\ pc[r] = "idle"
    /\ \E h \in Headers, p \in Payloads :
          LET out == save_data(h, p)
          IN  /\ headers' = [headers EXCEPT ![r] = h]
              /\ json' = [json EXCEPT ![r] = p]
              /\ pc' = [pc EXCEPT ![r] = out.pc]
              /\ weather_station' = [weather_station EXCEPT ![r] = out.station_id]
              /\ session' = [session EXCEPT ![r] = out.staged]
              /\ lookups' = [lookups EXCEPT ![r] = out.lookups]
              /\ response' = [response EXCEPT ![r] =
                     [status |-> out.status, message |-> out.message,
                      raised |-> out.raised]]
    /\ UNCHANGED <<drawn, store, next_id, last_get>>

\* The rows a commit inserts: the staged rows, numbered from the sequence.
Inserted(staged, first_id) ==
    [k \in 1..Len(staged) |->
        [observation_id |-> first_id + k - 1,
         station_id |-> staged[k].station_id,
         observation_datetime |-> staged[k].observation_datetime,
         variable |-> staged[k].variable,
         value |-> staged[k].value]]

\* A commit that replaces the rows of the same station, time and variable
\* (an upsert).
Committed_upsert(table, staged, first_id) ==
    SelectSeq(table, LAMBDA row :
        \A k \in 1..Len(staged) :
            \/ row.station_id # staged[k].station_id
            \/ row.observation_datetime # staged[k].observation_datetime
            \/ row.variable # staged[k].variable)
    \o Inserted(staged, first_id)

\* The table after a commit of the staged rows that succeeded: one
\* transaction, all rows.
Committed(table, staged, first_id) == table \o Inserted(staged, first_id)

\* A failed commit on a connection in autocommit: the rows inserted before
\* the failure stay.
RolledBack_autocommit(table, staged, first_id) ==
    table \o SubSeq(Inserted(staged, first_id), 1, 1)

\* The table after a commit that failed: the transaction is rolled back.
RolledBack(table, staged, first_id) == table

\* session.commit() succeeds.
Commit(r) ==
    /\ pc[r] = "commit"
    /\ store' = Committed(store, session[r], next_id)
    /\ drawn' = [drawn EXCEPT ![r] =
           {next_id + k - 1 : k \in 1..Len(session[r])}]
    /\ next_id' = next_id + Len(session[r])
    /\ session' = [session EXCEPT ![r] = <<>>]
    /\ pc' = [pc EXCEPT ![r] = "respond"]
    /\ UNCHANGED <<headers, json, weather_station, lookups, response, last_get>>

\* session.commit() raises (constraint violation, connection loss) after its
\* INSERTs drew their observation_id from the sequence, which a rollback
\* does not give back; the exception leaves the with block and the request
\* is answered 500.
CommitFails(r) ==
    /\ pc[r] = "commit"
    /\ store' = RolledBack(store, session[r], next_id)
    /\ drawn' = [drawn EXCEPT ![r] =
           {next_id + k - 1 : k \in 1..Len(session[r])}]
    /\ next_id' = next_id + Len(session[r])
    /\ session' = [session EXCEPT ![r] = <<>>]
    /\ response' = [response EXCEPT ![r] =
           [status |-> 500, message |-> "Internal Server Error",
            raised |-> "CommitError"]]
    /\ pc' = [pc EXCEPT ![r] = "done"]
    /\ UNCHANGED <<headers, json, weather_station, lookups, last_get>>

\* return {"status": "success"}, 201
Respond(r) ==
    /\ pc[r] = "respond"
    /\ response' = [response EXCEPT ![r] =
           [status |-> 201, message |-> "success", raised |-> NoError]]
    /\ pc' = [pc EXCEPT ![r] = "done"]
    /\ UNCHANGED <<headers, json, weather_station, session, lookups, drawn,
                   store, next_id, last_get>>

\* GET /ping
ping ==
    /\ last_get' = 200
    /\ UNCHANGED <<pc, headers, json, weather_station, session, lookups,
                   response, drawn, store, next_id>>

\* The rows plot_variable selects: those of the variable, taken in the last
\* 24 hours (recent: whether the stations' timestamp is).
plot_variable(table, var_name, recent) ==
    SelectSeq(table, LAMBDA row : recent /\ row.variable = var_name)

\* GET /temperature, /pressure, /humidity: the chart of the selected rows.
\* With no row selected the data frame has no columns and selecting
\* observation_datetime, variable, value raises KeyError: 500.
plot(var_name) ==
    /\ last_get' \in {IF plot_variable(store, var_name, recent) = <<>>
                      THEN 500 ELSE 200 : recent \in BOOLEAN}
    /\ UNCHANGED <<pc, headers, json, weather_station, session, lookups,
                   response, drawn, store, next_id>>

Next ==
    \/ \E r \in Requests : Handle(r)
    \/ \E r \in Requests : Commit(r)
    \/ \E r \in Requests : CommitFails(r)
    \/ \E r \in Requests : Respond(r)
    \/ ping
    \/ \E var_name \in VarSet : plot(var_name)

Spec == Init /\ [][Next]_vars

(***************************************************************************)
(* What the properties below speak of.                                     *)
(***************************************************************************)

\* The rows of the table that belong to request r.
RowsOf(r) == SelectSeq(store, LAMBDA row : row.observation_id \in drawn[r])

\* How many rows of request r the table holds for variable v.
RowCount(r, v) == Len(SelectSeq(RowsOf(r), LAMBDA row : row.variable = v))

\* The stations a credential matches.
Matching(h) == {s \in WeatherStation : s.station_post_key = h}

\* The request carried the key of exactly one station.
ValidCredential(r) == headers[r] # NoHeader /\ Cardinality(Matching(headers[r])) = 1

\* Request r has been answered, carried a valid credential and a payload
\* with time, and its commit, if reached, did not fail.
Acceptable(r) ==
    /\ pc[r] = "done"
    /\ ValidCredential(r)
    /\ "time" \in DOMAIN json[r]
    /\ response[r].raised # "CommitError"

IsPrefix(s, t) == Len(s) <= Len(t) /\ SubSeq(t, 1, Len(s)) = s

\* C1: a request with a valid credential and a payload with time and a
\* subset S of the variables adds exactly one row per variable in S and no
\* row for a variable not in S.
C1_OneRowPerPresentVariable ==
    \A r \in Requests :
        Acceptable(r) =>
            \A v \in VarSet :
                RowCount(r, v) = IF v \in DOMAIN json[r] THEN 1 ELSE 0

\* C2: a variable missing from the payload is never fatal: a request with a
\* valid credential and a payload with time is answered 201 success
\* whichever variables are absent.
C2_MissingVariableNotFatal ==
    \A r \in Requests :
        Acceptable(r) =>
            response[r].status = 201 /\ response[r].message = "success"

\* C3: atomicity of the batch: a request whose commit failed has no row in
\* the table, rows still staged are not in the table, and a request's rows
\* are in the table all together or not at all.
C3_Atomicity ==
    \A r \in Requests :
        /\ response[r].raised = "CommitError" => RowsOf(r) = <<>>
        /\ session[r] # <<>> => RowsOf(r) = <<>>
        /\ Len(RowsOf(r)) \in {0, Cardinality(drawn[r])}

\* A commit of one request failed after rows were staged while another
\* request's batch is in the table.
C3_Witness ==
    \E r1, r2 \in Requests :
        /\ response[r1].raised = "CommitError"
        /\ Cardinality(drawn[r1]) >= 1
        /\ RowsOf(r1) = <<>>
        /\ Len(RowsOf(r2)) = 3

\* C4: a request with a valid credential and a payload without time is
\* answered 400 "Data missing time", whatever variables it carries, stages
\* no row and has no row in the table.
C4_MissingTime ==
    \A r \in Requests :
        (pc[r] # "idle" /\ ValidCredential(r) /\ "time" \notin DOMAIN json[r]) =>
            /\ pc[r] = "done"
            /\ response[r].status = 400
            /\ response[r].message = "Data missing time"
            /\ session[r] = <<>>
            /\ drawn[r] = {}
            /\ RowsOf(r) = <<>>

\* A request with a valid credential, the three variables and no time has
\* been answered.
C4_Witness ==
    \E r \in Requests :
        /\ pc[r] = "done"
        /\ ValidCredential(r)
        /\ DOMAIN json[r] = VarSet
        /\ response[r].status = 400

\* C5: a credential that matches no station or more than one station is
\* answered 403 "Invalid API key" in both cases, and the request persists
\* no row whatever its payload.
C5_InvalidCredential ==
    \A r \in Requests :
        (pc[r] # "idle" /\ headers[r] # NoHeader
            /\ Cardinality(Matching(headers[r])) # 1) =>
            /\ pc[r] = "done"
            /\ response[r].status = 403
            /\ response[r].message = "Invalid API key"
            /\ session[r] = <<>>
            /\ drawn[r] = {}
            /\ RowsOf(r) = <<>>

\* One request with a key of no station and one with a key of two stations,
\* both with a full payload, have been answered.
C5_Witness ==
    \E r1, r2 \in Requests :
        /\ Matching(headers[r1]) = {} /\ headers[r1] # NoHeader
        /\ Cardinality(Matching(headers[r2])) = 2
        /\ DOMAIN json[r1] = Fields /\ DOMAIN json[r2] = Fields
        /\ response[r1].status = 403 /\ response[r2].status = 403

\* C6: a request without an Authorization header is answered 401 with the
\* message naming the header, whatever its payload, makes no registry
\* lookup and has no row staged or in the table.
C6_MissingCredential ==
    \A r \in Requests :
        (pc[r] # "idle" /\ headers[r] = NoHeader) =>
            /\ pc[r] = "done"
            /\ response[r].status = 401
            /\ response[r].message =
                   "Post requests require header {'Authorization': API_KEY}"
            /\ lookups[r] = 0
            /\ session[r] = <<>>
            /\ drawn[r] = {}
            /\ RowsOf(r) = <<>>

\* A request without header and with a full payload has been answered,
\* while another request's rows are in the table.
C6_Witness ==
    \E r1, r2 \in Requests :
        /\ pc[r1] = "done" /\ headers[r1] = NoHeader
        /\ DOMAIN json[r1] = Fields
        /\ response[r1].status = 401
        /\ RowsOf(r2) # <<>>

\* C7: no deduplication: two requests with the same valid credential and
\* the identical payload (time and at least one variable) both answer 201
\* and both persist, the table holding for each submitted variable a row of
\* each, with distinct observation_id.
C7_NoDeduplication ==
    \A r1, r2 \in Requests :
        (r1 # r2 /\ Acceptable(r1) /\ Acceptable(r2)
            /\ headers[r1] = headers[r2] /\ json[r1] = json[r2]
            /\ VarSet \cap DOMAIN json[r1] # {}) =>
            /\ response[r1].status = 201
            /\ response[r2].status = 201
            /\ \A v \in VarSet \cap DOMAIN json[r1] :
                  \E i \in 1..Len(RowsOf(r1)), j \in 1..Len(RowsOf(r2)) :
                      /\ RowsOf(r1)[i].variable = v
                      /\ RowsOf(r2)[j].variable = v
                      /\ RowsOf(r1)[i].observation_id # RowsOf(r2)[j].observation_id

\* One step: every committed row stays as it is, new rows are the whole
\* batch of one request passing its commit, a request past its commit is
\* answered 201, and no step that changes the table is a GET.
C8_Step ==
    /\ IsPrefix(store, store')
    /\ store' # store =>
          \E r \in Requests :
              /\ pc[r] = "commit" /\ pc'[r] = "respond"
              /\ session[r] # <<>>
              /\ Len(store') = Len(store) + Len(session[r])
              /\ \A k \in 1..Len(session[r]) :
                    store'[Len(store) + k].observation_id \in drawn'[r]
    /\ \A r \in Requests :
          (pc[r] = "respond" /\ pc'[r] # "respond") =>
              (pc'[r] = "done" /\ response'[r].status = 201)
    /\ store' # store => ~(ping \/ \E var_name \in VarSet : plot(var_name))

\* Every row in the table belongs to a request past its commit.
C8_Rows ==
    \A k \in 1..Len(store) :
        \E r \in Requests :
            /\ store[k].observation_id \in drawn[r]
            /\ pc[r] \in {"respond", "done"}
            /\ pc[r] = "done" => response[r].status = 201

\* C8: the table only grows: a row once committed is never changed or
\* removed, new rows appear only as the batch of a /data request that is
\* answered 201, and GET /ping and the chart routes leave the table
\* unchanged.
C8_StoreOnlyGrows == [](C8_Rows) /\ [][C8_Step]_vars

\* Two batches are in the table, and a GET was answered 200 and a request
\* answered 201.
C8_Witness ==
    /\ \A r \in Requests : response[r].status = 201 /\ RowsOf(r) # <<>>
    /\ last_get = 200

\* C9: every row persisted for a request carries the station its credential
\* resolved to, the time of its payload, one of the three variable names,
\* and as value the value its payload gives for that variable.
C9_RowsCarryPayloadValues ==
    \A r \in Requests :
        \A k \in 1..Len(RowsOf(r)) :
            LET row == RowsOf(r)[k]
            IN  /\ \E s \in Matching(headers[r]) : s.station_id = row.station_id
                /\ Cardinality(Matching(headers[r])) = 1
                /\ "time" \in DOMAIN json[r]
                /\ row.observation_datetime = json[r]["time"]
                /\ row.variable \in VarSet
                /\ row.variable \in DOMAIN json[r]
                /\ row.value = json[r][row.variable]

\* C10: the checks of a request come in a fixed order, the first failing
\* one deciding the answer: no header gives 401 without a lookup, else a
\* key that is not of exactly one station gives 403, else a payload without
\* time gives 400 (each whatever the later checks would say); rows are
\* staged only for a valid credential and a payload with time, and before
\* any answer; 201 is answered only with the request's batch in the table.
C10_FixedOrder ==
    \A r \in Requests :
        /\ pc[r] # "idle" =>
              /\ headers[r] = NoHeader =>
                    response[r].status = 401 /\ lookups[r] = 0
              /\ (headers[r] # NoHeader /\ ~ValidCredential(r)) =>
                    response[r].status = 403 /\ lookups[r] = 1
              /\ (ValidCredential(r) /\ "time" \notin DOMAIN json[r]) =>
                    response[r].status = 400
        /\ (session[r] # <<>> \/ drawn[r] # {}) =>
              /\ ValidCredential(r)
              /\ "time" \in DOMAIN json[r]
              /\ lookups[r] = 1
        /\ session[r] # <<>> => pc[r] = "commit" /\ response[r].status = 0
        /\ response[r].status = 201 =>
              /\ pc[r] = "done"
              /\ drawn[r] # {}
              /\ Len(RowsOf(r)) = Cardinality(drawn[r])
        /\ pc[r] = "respond" =>
              response[r].status = 0 /\ Len(RowsOf(r)) = Cardinality(drawn[r])

\* A request with an unknown key and no time was answered 403, and another,
\* with a valid key, was answered 201 with its batch in the table.
C10_Witness ==
    \E r1, r2 \in Requests :
        /\ headers[r1] = "not-a-real-key"
        /\ "time" \notin DOMAIN json[r1]
        /\ response[r1].status = 403
        /\ response[r2].status = 201
        /\ Len(RowsOf(r2)) = 3

====
